---- MODULE Spec2Model ----
(***************************************************************************)
(* Interview simulator: the persona Orchestrator (rotation order, cursor,  *)
(* ask / evaluate), the personas' ask / feedback, and the chat clients     *)
(* (HttpLLMClient, HFInferenceClient) with their retry loop and the quota  *)
(* fallback.                                                               *)
(*                                                                         *)
(* Text is a sequence of characters; " " stands for the whitespace class   *)
(* that str.strip() removes, every other character is non-whitespace.      *)
(***************************************************************************)
EXTENDS Integers, Sequences, FiniteSets, TLC

VARIABLES
    _order,     \* Orchestrator._order: contents of the list object it refers to
    _turn,      \* Orchestrator._turn
    aliased,    \* the caller still holds the list object _order refers to
    mutations,  \* how many times the caller has mutated a list it holds
    last,       \* the most recent API call: its arguments, its outcome, a snapshot
    asks,       \* the number of ask calls since the rotation last restarted
    asked,      \* the key that served the most recent ask ("none" when it found none)
    installed,  \* the value of the list a successful set_rotation (or __init__) installed
    pc,         \* per request thread: position inside Orchestrator.ask
    frame,      \* per request thread: the locals of Orchestrator.ask
    start,      \* the cursor when the concurrent requests arrived
    PROVIDER,   \* backend/main.py PROVIDER: which client class is loaded
    fb,         \* HttpLLMClient: which of fb_base_url, fb_api_key, fb_model are set
    cc,         \* the complete_chat call in flight on the client
    peer        \* the same call made on an HFInferenceClient run side by side

orchVars  == <<_order, _turn, aliased, mutations>>
apiVars   == <<last, asks, asked, installed>>
concVars  == <<pc, frame, start>>
clientVars == <<PROVIDER, fb, cc, peer>>
vars == <<_order, _turn, aliased, mutations, last, asks, asked, installed,
          pc, frame, start, PROVIDER, fb, cc, peer>>

---------------------------------------------------------------------------
(* Bounds *)

MaxTextLen == 1
MaxContentLen == 2
MaxOrderLen == 2
MaxAsks == 4
MaxStart == 2
MaxMutations == 1
MaxCalls == 2
NThreads == 2

---------------------------------------------------------------------------
(* Text and str.strip() *)

Chars == {" ", "a"}

RECURSIVE SeqsUpTo(_, _)
SeqsUpTo(S, n) ==
    IF n = 0 THEN {<<>>}
    ELSE LET shorter == SeqsUpTo(S, n - 1)
         IN  shorter \cup {Append(s, x) : s \in {q \in shorter : Len(q) = n - 1}, x \in S}

\* Answers a candidate may submit.
Answers == SeqsUpTo(Chars, MaxTextLen)

\* Assistant texts an upstream payload may carry.
Contents == SeqsUpTo(Chars, MaxContentLen)

IsSpace(c) == c = " "

RECURSIVE LStrip(_)
LStrip(s) == IF s # <<>> /\ IsSpace(Head(s)) THEN LStrip(Tail(s)) ELSE s

RECURSIVE RStrip(_)
RStrip(s) ==
    IF s # <<>> /\ IsSpace(s[Len(s)]) THEN RStrip(SubSeq(s, 1, Len(s) - 1)) ELSE s

Strip(s) == RStrip(LStrip(s))

---------------------------------------------------------------------------
(* Orchestrator: registry and rotation *)

Personas == {"tech", "hr", "mentor"}

RegistrationOrder == <<"tech", "hr", "mentor">>

DefaultOrder == <<"tech", "hr", "mentor">>

\* Keys a caller may pass: the registered ones and one that is not registered.
KeyInputs == Personas \cup {"ceo"}

OrderInputs == SeqsUpTo(KeyInputs, MaxOrderLen)

NoText == <<>>

\* _next_persona_key with the cursor advanced before the key is read.
NextPersonaKeyIncrementFirst(ord, trn) ==
    IF Len(ord) = 0
    THEN [exc |-> "ZeroDivisionError", key |-> "none", turn |-> trn]
    ELSE [exc |-> "none", key |-> ord[((trn + 1) % Len(ord)) + 1], turn |-> trn + 1]

\* _next_persona_key that returns the key and leaves the cursor where it was (the
\* advance deferred to the success of the call).
NextPersonaKeyAdvanceDeferred(ord, trn) ==
    IF Len(ord) = 0
    THEN [exc |-> "ZeroDivisionError", key |-> "none", turn |-> trn]
    ELSE [exc |-> "none", key |-> ord[(trn % Len(ord)) + 1], turn |-> trn]

\* Orchestrator._next_persona_key: the key at the cursor, then the cursor advanced.
\* An empty order makes the modulo raise before the cursor is touched.
NextPersonaKey(ord, trn) ==
    IF Len(ord) = 0
    THEN [exc |-> "ZeroDivisionError", key |-> "none", turn |-> trn]
    ELSE [exc |-> "none", key |-> ord[(trn % Len(ord)) + 1], turn |-> trn + 1]

\* reset_rotation that also restores the default order.
ResetRotationStateRestoresDefault(ord, trn) == [order |-> DefaultOrder, turn |-> 0]

\* Orchestrator.reset_rotation
ResetRotationState(ord, trn) == [order |-> ord, turn |-> 0]

\* set_rotation that resets the cursor before it validates the keys.
SetRotationStateResetsFirst(ord, trn, new) ==
    IF new = <<>>
    THEN [exc |-> "ValueError", order |-> ord, turn |-> trn]
    ELSE IF \E i \in 1..Len(new) : new[i] \notin Personas
    THEN [exc |-> "KeyError", order |-> ord, turn |-> 0]
    ELSE [exc |-> "none", order |-> new, turn |-> 0]

\* set_rotation that replaces the order and keeps the cursor.
SetRotationStateKeepsCursor(ord, trn, new) ==
    IF new = <<>>
    THEN [exc |-> "ValueError", order |-> ord, turn |-> trn]
    ELSE IF \E i \in 1..Len(new) : new[i] \notin Personas
    THEN [exc |-> "KeyError", order |-> ord, turn |-> trn]
    ELSE [exc |-> "none", order |-> new, turn |-> trn]

\* set_rotation that checks only that the list is non-empty.
SetRotationStateUnchecked(ord, trn, new) ==
    IF new = <<>>
    THEN [exc |-> "ValueError", order |-> ord, turn |-> trn]
    ELSE [exc |-> "none", order |-> new, turn |-> 0]

\* Orchestrator.set_rotation: both raises come before any assignment.
SetRotationState(ord, trn, new) ==
    IF new = <<>>
    THEN [exc |-> "ValueError", order |-> ord, turn |-> trn]
    ELSE IF \E i \in 1..Len(new) : new[i] \notin Personas
    THEN [exc |-> "KeyError", order |-> ord, turn |-> trn]
    ELSE [exc |-> "none", order |-> new, turn |-> 0]

\* Orchestrator.list_personas: a fresh list of the registry's keys.
ListPersonasResult == RegistrationOrder

---------------------------------------------------------------------------
(* Personas *)

\* What llm.complete_chat does as seen by a persona: it returns the text it
\* extracted (already stripped by the client) or raises.
LlmTexts == {Strip(s) : s \in SeqsUpTo(Chars, MaxTextLen)}

LlmExceptions == {"HttpError", "RuntimeError"}

LlmOutcomes ==
    [kind : {"text"}, text : LlmTexts, exc : {"none"}]
    \cup [kind : {"raise"}, text : {NoText}, exc : LlmExceptions]

NoLlm == [kind |-> "unused", text |-> NoText, exc |-> "none"]

FixedPrompt == <<"Please Answer the question">>

\* BaseAgent.ask and TechAgent.ask: one complete_chat call, its text stripped.
AgentAsk(key, llm) ==
    IF llm.kind = "raise"
    THEN [exc |-> llm.exc, text |-> NoText, llmCalls |-> 1]
    ELSE [exc |-> "none", text |-> Strip(llm.text), llmCalls |-> 1]

\* The blank test without the strip: only the empty answer is blank.
IsBlankAnswerEmptyOnly(answer) == answer = <<>>

\* `not answer or not answer.strip()`
IsBlankAnswer(answer) == answer = <<>> \/ Strip(answer) = <<>>

\* BaseAgent.feedback
AgentFeedback(key, answer, llm) ==
    IF IsBlankAnswer(answer)
    THEN [exc |-> "none", text |-> FixedPrompt, llmCalls |-> 0]
    ELSE IF llm.kind = "raise"
    THEN [exc |-> llm.exc, text |-> NoText, llmCalls |-> 1]
    ELSE [exc |-> "none", text |-> Strip(llm.text), llmCalls |-> 1]

---------------------------------------------------------------------------
(* Orchestrator: the API the endpoints use *)

\* Orchestrator.ask
OrchAsk(ord, trn, llm) ==
    LET n == NextPersonaKey(ord, trn)
    IN  IF n.exc # "none"
        THEN [exc |-> n.exc, persona |-> "none", text |-> NoText, llmCalls |-> 0,
              invoked |-> "none", turn |-> n.turn]
        ELSE IF n.key \notin Personas
        THEN [exc |-> "KeyError", persona |-> n.key, text |-> NoText, llmCalls |-> 0,
              invoked |-> "none", turn |-> n.turn]
        ELSE LET a == AgentAsk(n.key, llm)
             IN  [exc |-> a.exc, persona |-> n.key, text |-> a.text,
                  llmCalls |-> a.llmCalls, invoked |-> n.key, turn |-> n.turn]

\* evaluate without the registry check: an unknown key is served by a default.
OrchEvaluateUnchecked(persona, answer, llm) ==
    LET f == AgentFeedback(persona, answer, llm)
    IN  [exc |-> f.exc, persona |-> persona, text |-> f.text,
         llmCalls |-> f.llmCalls, invoked |-> "tech"]

\* Orchestrator.evaluate
OrchEvaluate(persona, answer, llm) ==
    IF persona \notin Personas
    THEN [exc |-> "KeyError", persona |-> persona, text |-> NoText, llmCalls |-> 0,
          invoked |-> "none"]
    ELSE LET f == AgentFeedback(persona, answer, llm)
         IN  [exc |-> f.exc, persona |-> persona, text |-> f.text,
              llmCalls |-> f.llmCalls, invoked |-> persona]

\* an /evaluate handler that takes every ValueError for a client error too
EvaluateEndpointValueErrorIsClientError(exc) ==
    IF exc = "pending" THEN 0
    ELSE IF exc = "none" THEN 200
    ELSE IF exc \in {"KeyError", "ValueError", "JSONDecodeError"} THEN 400
    ELSE 500

\* backend/main.py, POST /evaluate: the status of the response for what
\* orch.evaluate did (0 while it has not returned).
\*   except KeyError: 400; except Exception: 500
EvaluateEndpoint(exc) ==
    IF exc = "pending" THEN 0
    ELSE IF exc = "none" THEN 200
    ELSE IF exc = "KeyError" THEN 400
    ELSE 500

\* backend/main.py, POST /ask: except Exception: 500
AskEndpoint(exc) ==
    IF exc = "pending" THEN 0
    ELSE IF exc = "none" THEN 200
    ELSE 500

\* The status the HTTP boundary answers with; reset_rotation, set_rotation and
\* list_personas have no endpoint.
EndpointStatus(op, exc) ==
    IF op = "ask" THEN AskEndpoint(exc)
    ELSE IF op = "evaluate" THEN EvaluateEndpoint(exc)
    ELSE 0

\* The record of an API call: what was passed (arg: the list or key passed; for
\* list_personas the list returned), what came back, and the rotation state the
\* call found (the order is kept for the calls that must leave it alone).
CallRecord(op, arg, answer, llm, r) ==
    [op |-> op, arg |-> arg, answer |-> answer, llm |-> llm,
     exc |-> r.exc, persona |-> r.persona, text |-> r.text,
     llmCalls |-> r.llmCalls, invoked |-> r.invoked,
     status |-> EndpointStatus(op, r.exc),
     orderBefore |-> IF op = "set_rotation" /\ r.exc = "none" THEN <<>> ELSE _order,
     turnBefore |-> _turn]

NoResult == [exc |-> "none", persona |-> "none", text |-> NoText, llmCalls |-> 0,
             invoked |-> "none"]

Ask(llm) ==
    /\ asks < MaxAsks
    /\ LET r == OrchAsk(_order, _turn, llm)
       IN  /\ _turn' = r.turn
           /\ last' = CallRecord("ask", <<>>, NoText,
                                 IF r.llmCalls = 0 THEN NoLlm ELSE llm, r)
           /\ asks' = asks + 1
           /\ asked' = r.persona
    /\ UNCHANGED <<_order, aliased, mutations, installed>>
    /\ UNCHANGED <<concVars, clientVars>>

Evaluate(persona, answer, llm) ==
    /\ (llm = NoLlm) <=> (persona \notin Personas \/ IsBlankAnswer(answer))
    /\ LET r == OrchEvaluate(persona, answer, llm)
       IN  last' = CallRecord("evaluate", <<persona>>, answer, llm, r)
    /\ UNCHANGED <<orchVars, asks, asked, installed>>
    /\ UNCHANGED <<concVars, clientVars>>

ResetRotation ==
    /\ LET s == ResetRotationState(_order, _turn)
       IN  /\ _order' = s.order
           /\ _turn' = s.turn
    /\ last' = CallRecord("reset_rotation", <<>>, NoText, NoLlm, NoResult)
    /\ asks' = 0
    /\ UNCHANGED <<aliased, mutations, installed, asked>>
    /\ UNCHANGED <<concVars, clientVars>>

\* set_rotation stores the caller's list object itself (`self._order = order`).
SetRotation(new) ==
    /\ LET s == SetRotationState(_order, _turn, new)
       IN  /\ _order' = s.order
           /\ _turn' = s.turn
           /\ last' = CallRecord("set_rotation", new, NoText, NoLlm,
                                 [NoResult EXCEPT !.exc = s.exc])
           /\ asks' = IF s.exc = "none" THEN 0 ELSE asks
           /\ installed' = IF s.exc = "none" THEN new ELSE installed
           /\ aliased' = IF s.exc = "none" THEN TRUE ELSE aliased
    /\ UNCHANGED <<asked, mutations>>
    /\ UNCHANGED <<concVars, clientVars>>

ListPersonas ==
    /\ last' = CallRecord("list_personas", ListPersonasResult, NoText, NoLlm, NoResult)
    /\ UNCHANGED <<orchVars, asks, asked, installed>>
    /\ UNCHANGED <<concVars, clientVars>>

---------------------------------------------------------------------------
(* Chat clients: HttpLLMClient (PROVIDER "http") and HFInferenceClient       *)
(* (PROVIDER "hf_inference"), and the transport they post to                 *)

Providers == {"http", "hf_inference"}

\* The three fallback settings of HttpLLMClient.__init__.
FallbackTriple == {"base_url", "api_key", "model"}

HttpStopAfterAttempt == 4
HFStopAfterAttempt == 3
HttpDefaultMaxTokens == 128
HFDefaultMaxTokens == 512

\* A chat message as a caller may pass it: a dict with or without its two keys,
\* or something that is no dict.
Msg(role, content) == [role |-> role, content |-> content]

Messages(isList, items) == [isList |-> isList, items |-> items]

\* BaseAgent._messages: system prompt, then the user prompt.
AgentMessages == Messages(TRUE, <<Msg("system", "text"), Msg("user", "text")>>)

MessageInputs ==
    { AgentMessages,
      Messages(TRUE, <<Msg("user", "text")>>),
      Messages(TRUE, <<>>),
      Messages(FALSE, <<>>),
      Messages(TRUE, <<Msg("tool", "text")>>),
      Messages(TRUE, <<Msg("<missing>", "text")>>),
      Messages(TRUE, <<Msg("user", "<missing>")>>),
      Messages(TRUE, <<Msg("<notdict>", "<notdict>")>>) }

\* max_tokens as passed: 0 stands for None (and for 0: `max_tokens or default`).
MaxTokensInputs == {0, 160}

\* temperature in tenths.
TemperatureInputs == {6}

\* Response bodies by the shape the clients look at.
\*   chat              {"choices": [{"message": {"content": <text>}}]}
\*   content_null      {"choices": [{"message": {"content": null}}]}
\*   content_missing   {"choices": [{"message": {}}]}
\*   message_missing   {"choices": [{}]}
\*   choices_empty     {"choices": []}
\*   object_other      {}  (an object with none of the keys looked up)
\*   generated_list    [{"generated_text": <text>}]
\*   generated_object  {"generated_text": <text>}
\*   generated_null    {"generated_text": null}
\*   list_empty        []
\*   list_other        [{}]
\*   list_scalar       [1]
\*   quota             {"error": {"code": "insufficient_quota"}}
\*   other_code        {"error": {"code": "rate_limit_exceeded"}}
\*   error_string      {"error": "quota"}
\*   not_json          a body that is no JSON document
Body(shape, text) == [shape |-> shape, text |-> text]

TextShapes == {"chat", "generated_list", "generated_object"}

ObjectShapes ==
    {"chat", "content_null", "content_missing", "message_missing", "choices_empty",
     "object_other", "generated_object", "generated_null", "quota", "other_code",
     "error_string"}

ListShapes == {"generated_list", "list_empty", "list_other", "list_scalar"}

SuccessBodies ==
    {Body(sh, t) : sh \in TextShapes, t \in Contents}
    \cup {Body(sh, NoText) :
            sh \in {"content_null", "content_missing", "message_missing",
                    "choices_empty", "object_other", "generated_null", "list_empty",
                    "list_other", "list_scalar", "not_json"}}

ErrorBodies ==
    {Body(sh, NoText) :
        sh \in {"quota", "other_code", "error_string", "object_other", "list_empty",
                "not_json"}}

NoBody == Body("none", NoText)

\* What the transport does with one request: httpx raises (connection, TLS, DNS
\* or timeout: all httpx.HTTPError), or a response comes back.
TransportOutcomes ==
    [kind : {"exception"}, exc : {"ConnectError", "ReadTimeout"}, status : {0},
     body : {NoBody}]
    \cup [kind : {"response"}, exc : {"none"}, status : {200}, body : SuccessBodies]
    \cup [kind : {"response"}, exc : {"none"}, status : {400, 429, 503},
          body : ErrorBodies]

NoResponse == [kind |-> "none", exc |-> "none", status |-> 0, body |-> NoBody]

\* The outcomes the retry policy is about: a network-layer failure or timeout
\* (httpx.HTTPError covers both), or a 5xx response.
TransientOutcome(outcome) ==
    \/ outcome.kind = "exception"
    \/ outcome.kind = "response" /\ outcome.status >= 500 /\ outcome.status < 600

\* _post with only the 5xx responses retried: a network failure is raised as it is.
PostAttemptNetworkNotRetried(provider, outcome) ==
    IF outcome.kind = "exception" THEN "RuntimeError"
    ELSE IF outcome.status >= 500 THEN "HttpError"
    ELSE IF provider = "hf_inference" /\ outcome.status >= 400 THEN "RuntimeError"
    ELSE "return"

\* One attempt of _post: "HttpError" is what the retry decorator retries,
\* "RuntimeError" leaves _post at once, "return" hands the response back.
PostAttempt(provider, outcome) ==
    IF outcome.kind = "exception" THEN "HttpError"
    ELSE IF provider = "http"
    THEN IF 500 <= outcome.status /\ outcome.status < 600 THEN "HttpError" ELSE "return"
    ELSE IF outcome.status >= 500 THEN "HttpError"
    ELSE IF outcome.status >= 400 THEN "RuntimeError"
    ELSE "return"

\* a retry loop that gives up one attempt early
StopAfterAttemptOneFewer(provider) ==
    IF provider = "http" THEN HttpStopAfterAttempt - 1 ELSE HFStopAfterAttempt - 1

\* a retry loop that allows one attempt more
StopAfterAttemptOneMore(provider) ==
    IF provider = "http" THEN HttpStopAfterAttempt + 1 ELSE HFStopAfterAttempt + 1

\* stop=stop_after_attempt(n) of the client's _post
StopAfterAttempt(provider) ==
    IF provider = "http" THEN HttpStopAfterAttempt ELSE HFStopAfterAttempt

\* a _try_fallback_if_quota that never finds the quota code
FallbackDecisionDisabled(fbSet, r) ==
    IF r.status = 429 /\ fbSet = FallbackTriple /\ r.body.shape = "error_string"
    THEN "AttributeError" ELSE "keep"

\* HttpLLMClient._try_fallback_if_quota, up to its decision: "keep" returns r,
\* "fallback" posts to the fallback endpoint, "AttributeError" is err.get on a
\* value that is no dict (raised outside the try).
FallbackDecision(fbSet, r) ==
    IF r.status # 429 THEN "keep"
    ELSE IF fbSet # FallbackTriple THEN "keep"
    ELSE IF r.body.shape \notin ObjectShapes THEN "keep"
    ELSE IF r.body.shape = "error_string" THEN "AttributeError"
    ELSE IF r.body.shape = "quota" THEN "fallback"
    ELSE "keep"

\* int(max_tokens or self.default_max_tokens) / max_tokens or self.default_max_tokens
ResolveMaxTokens(provider, maxTokens) ==
    IF maxTokens # 0 THEN maxTokens
    ELSE IF provider = "http" THEN HttpDefaultMaxTokens ELSE HFDefaultMaxTokens

\* _qwen_chatml: a missing or unknown role becomes user, missing content "".
QwenChatml(messages) ==
    IF ~messages.isList THEN [exc |-> "TypeError", messages |-> messages]
    ELSE IF \E i \in 1..Len(messages.items) : messages.items[i].role = "<notdict>"
    THEN [exc |-> "AttributeError", messages |-> messages]
    ELSE [exc |-> "none",
          messages |->
              Messages(TRUE,
                  [i \in 1..Len(messages.items) |->
                      Msg(IF messages.items[i].role \in {"system", "user", "assistant"}
                              THEN messages.items[i].role ELSE "user",
                          IF messages.items[i].content = "<missing>"
                              THEN "" ELSE messages.items[i].content)])]

\* What complete_chat does before its first request.
\*   http: `if not isinstance(messages, list) or not messages: raise ValueError`
\*   hf_inference: prompt = _qwen_chatml(messages)
Prepare(provider, messages) ==
    IF provider = "http"
    THEN IF ~messages.isList \/ messages.items = <<>>
         THEN [exc |-> "ValueError", messages |-> messages]
         ELSE [exc |-> "none", messages |-> messages]
    ELSE QwenChatml(messages)

Payload(model, messages, maxTokens, temperature) ==
    [model |-> model, messages |-> messages, max_tokens |-> maxTokens,
     temperature |-> temperature, stream |-> FALSE]

NoPayload == Payload("none", Messages(FALSE, <<>>), 0, 0)

\* What one client.post carries: the endpoint, the bearer key of the headers, and
\* the JSON payload.
Request(url, key, payload) == [url |-> url, key |-> key, payload |-> payload]

NoRequest == Request("none", "none", NoPayload)

\* self._post(self._endpoint(), self.headers, payload)
PrimaryRequest(messages, maxTokens, temperature) ==
    Request("LLM_BASE_URL", "LLM_API_KEY",
            Payload("LLM_MODEL", messages, maxTokens, temperature))

\* self._post(self._endpoint(self.fb_base_url), fb_headers, payload) with the
\* payload _try_fallback_if_quota builds from its arguments
FallbackRequest(messages, maxTokens, temperature) ==
    Request("LLM_FALLBACK_BASE_URL", "LLM_FALLBACK_API_KEY",
            Payload("LLM_FALLBACK_MODEL", messages, maxTokens, temperature))

\* What an exception's message carries of the response: the status code, and an
\* excerpt of the body (r.text[:300], json.dumps(data)[:300]).
Carried(status, excerpt) == [status |-> status, excerpt |-> excerpt]

NoCarried == Carried(0, FALSE)

\* The text extraction of complete_chat from a response below 400.
\*   http: data = r.json(); data["choices"][0]["message"]["content"].strip(), any
\*         exception of the lookup turned into RuntimeError
\*   hf_inference: data = r.json(); the two generated_text shapes, else RuntimeError
Parse(provider, body) ==
    IF body.shape = "not_json" THEN [exc |-> "JSONDecodeError", text |-> NoText]
    ELSE IF provider = "http"
    THEN IF body.shape = "chat" THEN [exc |-> "none", text |-> Strip(body.text)]
         ELSE [exc |-> "RuntimeError", text |-> NoText]
    ELSE IF body.shape \in {"generated_list", "generated_object"}
         THEN [exc |-> "none", text |-> Strip(body.text)]
         ELSE IF body.shape = "list_scalar" THEN [exc |-> "TypeError", text |-> NoText]
         ELSE IF body.shape = "generated_null"
         THEN [exc |-> "AttributeError", text |-> NoText]
         ELSE [exc |-> "RuntimeError", text |-> NoText]

\* complete_chat once _post (and the fallback) handed it a response.
\*   http: `if r.status_code >= 400: raise RuntimeError(...)`, then the extraction
CompleteChatResult(provider, r) ==
    IF provider = "http" /\ r.status >= 400
    THEN [exc |-> "RuntimeError", text |-> NoText]
    ELSE Parse(provider, r.body)

\* What the exception that ends complete_chat on response r says of r: the
\* RuntimeErrors of complete_chat name the status (at 400 and above) and quote
\* the body; the exception of r.json() quotes nothing.
CompleteChatCarried(provider, r) ==
    LET res == CompleteChatResult(provider, r)
    IN  IF res.exc # "RuntimeError" THEN NoCarried
        ELSE Carried(IF r.status >= 400 THEN r.status ELSE 0, TRUE)

PerEndpoint(p, f) == [primary |-> p, fallback |-> f]

\* A complete_chat that was called from outside the personas.
DirectCaller == [op |-> "complete_chat", persona |-> "none", answer |-> NoText]

IdleCall ==
    [pc |-> "idle", caller |-> DirectCaller,
     messages |-> Messages(FALSE, <<>>), max_tokens |-> 0,
     temperature |-> 0, ep |-> "primary", attempts |-> 0,
     sent |-> PerEndpoint(0, 0), transients |-> PerEndpoint(0, 0),
     requests |-> PerEndpoint(NoRequest, NoRequest), outcome |-> NoResponse,
     resp |-> NoResponse, exc |-> "none", carried |-> NoCarried, text |-> NoText]

\* complete_chat up to its first _post: validation / prompt building, the payload.
StartCall(provider, caller, messages, maxTokens, temperature) ==
    LET prep == Prepare(provider, messages)
        resolved == ResolveMaxTokens(provider, maxTokens)
    IN  IF prep.exc # "none"
        THEN [IdleCall EXCEPT !.pc = "done", !.caller = caller, !.messages = messages,
                              !.exc = prep.exc]
        ELSE [IdleCall EXCEPT !.pc = "post", !.caller = caller, !.messages = messages,
                              !.max_tokens = resolved,
                              !.temperature = temperature,
                              !.requests.primary =
                                  PrimaryRequest(prep.messages, resolved, temperature)]

\* a complete_chat that runs the quota check on every response _post returns
AfterPostChecksQuotaAgain(provider, ep) ==
    IF provider = "http" THEN "try_fallback" ELSE "finish"

\* Where a response that _post returned goes: HttpLLMClient hands the primary's
\* to _try_fallback_if_quota; the fallback's _post result and HFInferenceClient's
\* go straight to the end of complete_chat.
AfterPost(provider, ep) ==
    IF provider = "http" /\ ep = "primary" THEN "try_fallback" ELSE "finish"

\* One attempt of the _post in progress: the request goes out and the transport
\* answers. A retried failure leaves the call in _post (after the backoff wait)
\* unless this was the last attempt, which re-raises it. The call's record keeps
\* what the transport did (outcome, sent, transients) next to what _post made of it.
PostStep(provider, call, outcome) ==
    LET verdict == PostAttempt(provider, outcome)
        attempt == call.attempts + 1
        counted == [call EXCEPT !.attempts = attempt,
                                !.outcome = outcome,
                                !.sent[call.ep] = @ + 1,
                                !.transients[call.ep] =
                                    IF TransientOutcome(outcome) THEN @ + 1 ELSE @]
    IN  IF verdict = "HttpError"
        THEN IF attempt >= StopAfterAttempt(provider)
             THEN [counted EXCEPT !.pc = "done", !.exc = "HttpError",
                                  !.carried = Carried(outcome.status,
                                                      outcome.kind = "response")]
             ELSE counted
        ELSE IF verdict = "return"
        THEN [counted EXCEPT !.resp = outcome, !.pc = AfterPost(provider, call.ep)]
        ELSE [counted EXCEPT !.resp = outcome, !.pc = "done", !.exc = verdict,
                             !.carried = Carried(outcome.status,
                                                 outcome.kind = "response")]

\* r = self._try_fallback_if_quota(r, messages, payload["max_tokens"], ...)
FallbackStep(fbSet, call) ==
    LET decision == FallbackDecision(fbSet, call.resp)
    IN  IF decision = "fallback"
        THEN [call EXCEPT !.pc = "post", !.ep = "fallback", !.attempts = 0,
                          !.requests.fallback =
                              FallbackRequest(call.messages,
                                              call.requests.primary.payload.max_tokens,
                                              call.requests.primary.payload.temperature)]
        ELSE IF decision = "keep"
        THEN [call EXCEPT !.pc = "finish"]
        ELSE [call EXCEPT !.pc = "done", !.exc = decision]

\* The status check and the text extraction that end complete_chat.
FinishStep(provider, call) ==
    LET res == CompleteChatResult(provider, call.resp)
    IN  [call EXCEPT !.pc = "done", !.exc = res.exc, !.text = res.text,
                     !.carried = CompleteChatCarried(provider, call.resp)]

\* complete_chat is called.
CompleteChat(messages, maxTokens, temperature) ==
    /\ cc.pc = "idle"
    /\ cc' = StartCall(PROVIDER, DirectCaller, messages, maxTokens, temperature)
    /\ UNCHANGED <<PROVIDER, fb, peer, orchVars, apiVars, concVars>>

Post(outcome) ==
    /\ cc.pc = "post"
    /\ cc' = PostStep(PROVIDER, cc, outcome)
    /\ UNCHANGED <<PROVIDER, fb, peer, orchVars, apiVars, concVars>>

TryFallbackIfQuota ==
    /\ cc.pc = "try_fallback"
    /\ cc' = FallbackStep(fb, cc)
    /\ UNCHANGED <<PROVIDER, fb, peer, orchVars, apiVars, concVars>>

Finish ==
    /\ cc.pc = "finish"
    /\ cc' = FinishStep(PROVIDER, cc)
    /\ UNCHANGED <<PROVIDER, fb, peer, orchVars, apiVars, concVars>>

\* A direct caller has its text or its exception; the client keeps nothing of
\* the call.
Return ==
    /\ cc.pc = "done"
    /\ cc.caller = DirectCaller
    /\ cc' = IdleCall
    /\ UNCHANGED <<PROVIDER, fb, peer, orchVars, apiVars, concVars>>

---------------------------------------------------------------------------
(* Parts of the state a specification does not use *)

NoThreads == <<>>

\* No client call is modelled: the specification works above complete_chat.
NoCall == [pc |-> "idle"]

OrchInit ==
    /\ _order = DefaultOrder
    /\ _turn = 0
    /\ aliased = FALSE
    /\ mutations = 0

ApiInit ==
    /\ last = [op |-> "init", arg |-> <<>>, answer |-> NoText, llm |-> NoLlm,
               exc |-> "none", persona |-> "none", text |-> NoText, llmCalls |-> 0,
               invoked |-> "none", status |-> 0, orderBefore |-> DefaultOrder,
               turnBefore |-> 0]
    /\ asks = 0
    /\ asked = "none"
    /\ installed = DefaultOrder

---------------------------------------------------------------------------
(* Spec: one caller using the Orchestrator's API, one call at a time *)

Init ==
    /\ OrchInit
    /\ ApiInit
    /\ pc = NoThreads /\ frame = NoThreads /\ start = 0
    /\ PROVIDER = "http" /\ fb = {} /\ cc = NoCall /\ peer = NoCall

Next ==
    \/ \E llm \in LlmOutcomes : Ask(llm)
    \/ \E persona \in KeyInputs, answer \in Answers, llm \in LlmOutcomes \cup {NoLlm} :
           Evaluate(persona, answer, llm)
    \/ ResetRotation
    \/ \E new \in OrderInputs : SetRotation(new)
    \/ ListPersonas

Spec == Init /\ [][Next]_vars

---------------------------------------------------------------------------
(* SpecAlias: Spec, and the caller also mutating the list objects it holds *)

\* list.append, list.pop, list.clear and item assignment on a list of keys.
ListMutations(list) ==
    {Append(list, k) : k \in IF Len(list) < MaxOrderLen THEN KeyInputs ELSE {}}
    \cup {SubSeq(list, 1, Len(list) - 1) : n \in IF list # <<>> THEN {0} ELSE {}}
    \cup {<<>>}

\* The caller mutates the list it passed to a successful set_rotation: _order is
\* that same object (`self._order = order` copies nothing).
CallerMutatesPassedList ==
    /\ aliased
    /\ mutations < MaxMutations
    /\ \E new \in ListMutations(_order) \ {_order} : _order' = new
    /\ mutations' = mutations + 1
    /\ UNCHANGED <<_turn, aliased, apiVars, concVars, clientVars>>

\* The caller mutates the list list_personas returned: a copy of the keys.
CallerMutatesListed ==
    /\ last.op = "list_personas"
    /\ mutations < MaxMutations
    /\ \E new \in ListMutations(last.arg) \ {last.arg} : last' = [last EXCEPT !.arg = new]
    /\ mutations' = mutations + 1
    /\ UNCHANGED <<_order, _turn, aliased, asks, asked, installed, concVars, clientVars>>

NextAlias ==
    \/ Next
    \/ CallerMutatesPassedList
    \/ CallerMutatesListed

SpecAlias == Init /\ [][NextAlias]_vars

---------------------------------------------------------------------------
(* SpecConc: concurrent POST /ask requests, each on a thread of the server's    *)
(* pool, sharing the one module-level Orchestrator. No lock guards the cursor, *)
(* so the threads interleave between the reads and the write of _turn.         *)

Threads == 1..NThreads

NoFrame == [key |-> "none", pos |-> -1, tmp |-> -1, exc |-> "none", text |-> NoText]

\* main.ask -> orch.ask: the request enters Orchestrator.ask.
AskEnter(t) ==
    /\ pc[t] = "request"
    /\ pc' = [pc EXCEPT ![t] = "read_key"]
    /\ UNCHANGED <<frame, start, orchVars, apiVars, clientVars>>

\* key = self._order[self._turn % len(self._order)]
NpkReadKey(t) ==
    /\ pc[t] = "read_key"
    /\ frame' = [frame EXCEPT ![t].key = _order[(_turn % Len(_order)) + 1],
                              ![t].pos = _turn]
    /\ pc' = [pc EXCEPT ![t] = "load_turn"]
    /\ UNCHANGED <<start, orchVars, apiVars, clientVars>>

\* self._turn += 1, the load
NpkLoadTurn(t) ==
    /\ pc[t] = "load_turn"
    /\ frame' = [frame EXCEPT ![t].tmp = _turn]
    /\ pc' = [pc EXCEPT ![t] = "store_turn"]
    /\ UNCHANGED <<start, orchVars, apiVars, clientVars>>

\* self._turn += 1, the store
NpkStoreTurn(t) ==
    /\ pc[t] = "store_turn"
    /\ _turn' = frame[t].tmp + 1
    /\ pc' = [pc EXCEPT ![t] = "agent"]
    /\ UNCHANGED <<frame, start, _order, aliased, mutations, apiVars, clientVars>>

\* question = agent.ask(context); return {"persona": key, "question": question}
AskReturn(t, llm) ==
    /\ pc[t] = "agent"
    /\ LET a == AgentAsk(frame[t].key, llm)
       IN  frame' = [frame EXCEPT ![t].exc = a.exc, ![t].text = a.text]
    /\ pc' = [pc EXCEPT ![t] = "done"]
    /\ UNCHANGED <<start, orchVars, apiVars, clientVars>>

InitConc ==
    /\ _order = DefaultOrder
    /\ start \in 0..MaxStart
    /\ _turn = start
    /\ aliased = FALSE
    /\ mutations = 0
    /\ ApiInit
    /\ pc = [t \in Threads |-> "request"]
    /\ frame = [t \in Threads |-> NoFrame]
    /\ PROVIDER = "http" /\ fb = {} /\ cc = NoCall /\ peer = NoCall

NextConc ==
    \E t \in Threads :
        \/ AskEnter(t)
        \/ NpkReadKey(t)
        \/ NpkLoadTurn(t)
        \/ NpkStoreTurn(t)
        \/ \E llm \in LlmOutcomes : AskReturn(t, llm)

SpecConc == InitConc /\ [][NextConc]_vars

---------------------------------------------------------------------------
(* SpecClient: complete_chat calls on one client, against any transport *)

InitClient ==
    /\ OrchInit
    /\ ApiInit
    /\ pc = NoThreads /\ frame = NoThreads /\ start = 0
    /\ PROVIDER \in Providers
    /\ fb \in SUBSET FallbackTriple
    /\ PROVIDER = "hf_inference" => fb = {}
    /\ cc = IdleCall
    /\ peer = NoCall

NextClient ==
    \/ \E messages \in MessageInputs, maxTokens \in MaxTokensInputs,
          temperature \in TemperatureInputs :
           CompleteChat(messages, maxTokens, temperature)
    \/ \E outcome \in TransportOutcomes : Post(outcome)
    \/ TryFallbackIfQuota
    \/ Finish
    \/ Return

SpecClient == InitClient /\ [][NextClient]_vars

---------------------------------------------------------------------------
(* SpecCall: Orchestrator.ask / evaluate carried through the client, request  *)
(* by request                                                                 *)

\* max_tokens and temperature (in tenths) of the personas' complete_chat calls
AskMaxTokens == 128
AskTemperature == 7
TechAskTemperature == 6
FeedbackMaxTokens == 160
FeedbackTemperature == 6

\* The client configurations the calls are run against.
ClientConfigs ==
    {<<"http", {}>>, <<"http", FallbackTriple>>, <<"hf_inference", {}>>}

\* The record of a call that has not returned yet.
Pending == [NoResult EXCEPT !.exc = "pending"]

\* What the persona makes of the finished complete_chat.
LlmOutcomeOf(call) ==
    IF call.exc = "none"
    THEN [kind |-> "text", text |-> call.text, exc |-> "none"]
    ELSE [kind |-> "raise", text |-> NoText, exc |-> call.exc]

\* Orchestrator.ask up to the persona's complete_chat call: the key is chosen, the
\* cursor advanced, the persona builds its two messages and calls the client.
AskBegin ==
    /\ cc.pc = "idle"
    /\ asks < MaxCalls
    /\ LET n == NextPersonaKey(_order, _turn)
       IN  /\ n.exc = "none" /\ n.key \in Personas
           /\ _turn' = n.turn
           /\ asked' = n.key
           /\ last' = CallRecord("ask", <<>>, NoText, NoLlm,
                                 [Pending EXCEPT !.persona = n.key])
           /\ cc' = StartCall(PROVIDER,
                              [op |-> "ask", persona |-> n.key, answer |-> NoText],
                              AgentMessages, AskMaxTokens,
                              IF n.key = "tech" THEN TechAskTemperature
                                                ELSE AskTemperature)
    /\ asks' = asks + 1
    /\ UNCHANGED <<_order, aliased, mutations, installed, PROVIDER, fb, peer, concVars>>

\* Orchestrator.evaluate up to the persona's complete_chat call; an unknown key
\* and a blank answer end the call here.
EvaluateBegin(persona, answer) ==
    /\ cc.pc = "idle"
    /\ IF persona \notin Personas \/ IsBlankAnswer(answer)
       THEN /\ last' = CallRecord("evaluate", <<persona>>, answer, NoLlm,
                                  OrchEvaluate(persona, answer, NoLlm))
            /\ cc' = cc
       ELSE /\ last' = CallRecord("evaluate", <<persona>>, answer, NoLlm,
                                  [Pending EXCEPT !.persona = persona])
            /\ cc' = StartCall(PROVIDER,
                               [op |-> "evaluate", persona |-> persona,
                                answer |-> answer],
                               AgentMessages, FeedbackMaxTokens, FeedbackTemperature)
    /\ UNCHANGED <<orchVars, asks, asked, installed, PROVIDER, fb, peer, concVars>>

\* complete_chat has returned or raised: the persona strips the text, the
\* Orchestrator returns {persona, question / feedback}, or the exception passes
\* through both.
CallReturn ==
    /\ cc.pc = "done"
    /\ cc.caller # DirectCaller
    /\ LET llm == LlmOutcomeOf(cc)
           a == IF cc.caller.op = "ask"
                THEN AgentAsk(cc.caller.persona, llm)
                ELSE AgentFeedback(cc.caller.persona, cc.caller.answer, llm)
       IN  last' = [last EXCEPT !.llm = llm, !.exc = a.exc, !.text = a.text,
                                !.llmCalls = a.llmCalls,
                                !.invoked = cc.caller.persona,
                                !.status = EndpointStatus(cc.caller.op, a.exc)]
    /\ cc' = IdleCall
    /\ UNCHANGED <<orchVars, asks, asked, installed, PROVIDER, fb, peer, concVars>>

InitCall ==
    /\ OrchInit
    /\ ApiInit
    /\ pc = NoThreads /\ frame = NoThreads /\ start = 0
    /\ \E config \in ClientConfigs : PROVIDER = config[1] /\ fb = config[2]
    /\ cc = IdleCall
    /\ peer = NoCall

NextCall ==
    \/ AskBegin
    \/ \E persona \in KeyInputs, answer \in Answers : EvaluateBegin(persona, answer)
    \/ \E outcome \in TransportOutcomes : Post(outcome)
    \/ TryFallbackIfQuota
    \/ Finish
    \/ CallReturn

SpecCall == InitCall /\ [][NextCall]_vars

---------------------------------------------------------------------------
(* SpecPair: an HttpLLMClient without fallback (cc) and an HFInferenceClient   *)
(* (peer) given the same complete_chat call and the same transport outcomes   *)

\* The same transport outcome as each client's endpoint delivers it: <<to the
\* HttpLLMClient, to the HFInferenceClient>>. A well-formed 200 carries the text
\* in the provider's own shape.
Response(status, body) ==
    [kind |-> "response", exc |-> "none", status |-> status, body |-> body]

PairedOutcomes ==
    {<<o, o>> : o \in {t \in TransportOutcomes : t.kind = "exception"}}
    \cup {<<Response(st, Body("object_other", NoText)),
            Response(st, Body("object_other", NoText))>> : st \in {400, 503}}
    \cup {<<Response(200, Body("chat", t)), Response(200, Body("generated_list", t))>> :
            t \in Contents}
    \cup {<<Response(200, Body(sh, NoText)), Response(200, Body(sh, NoText))>> :
            sh \in {"object_other", "not_json"}}

PairCompleteChat(messages, maxTokens, temperature) ==
    /\ cc.pc = "idle" /\ peer.pc = "idle"
    /\ cc' = StartCall("http", DirectCaller, messages, maxTokens, temperature)
    /\ peer' = StartCall("hf_inference", DirectCaller, messages, maxTokens, temperature)
    /\ UNCHANGED <<PROVIDER, fb, orchVars, apiVars, concVars>>

\* The next request of each client still in _post is answered, both alike.
PairPost(outcomes) ==
    /\ cc.pc \in {"post", "done"} /\ peer.pc \in {"post", "done"}
    /\ cc.pc = "post" \/ peer.pc = "post"
    /\ cc' = IF cc.pc = "post" THEN PostStep("http", cc, outcomes[1]) ELSE cc
    /\ peer' = IF peer.pc = "post" THEN PostStep("hf_inference", peer, outcomes[2])
                                   ELSE peer
    /\ UNCHANGED <<PROVIDER, fb, orchVars, apiVars, concVars>>

PairTryFallback ==
    /\ cc.pc = "try_fallback"
    /\ cc' = FallbackStep(fb, cc)
    /\ UNCHANGED <<PROVIDER, fb, peer, orchVars, apiVars, concVars>>

PairFinishHttp ==
    /\ cc.pc = "finish"
    /\ cc' = FinishStep("http", cc)
    /\ UNCHANGED <<PROVIDER, fb, peer, orchVars, apiVars, concVars>>

PairFinishHF ==
    /\ peer.pc = "finish"
    /\ peer' = FinishStep("hf_inference", peer)
    /\ UNCHANGED <<PROVIDER, fb, cc, orchVars, apiVars, concVars>>

PairReturn ==
    /\ cc.pc = "done" /\ peer.pc = "done"
    /\ cc' = IdleCall
    /\ peer' = IdleCall
    /\ UNCHANGED <<PROVIDER, fb, orchVars, apiVars, concVars>>

InitPair ==
    /\ OrchInit
    /\ ApiInit
    /\ pc = NoThreads /\ frame = NoThreads /\ start = 0
    /\ PROVIDER = "http" /\ fb = {}
    /\ cc = IdleCall
    /\ peer = IdleCall

NextPair ==
    \/ \E messages \in MessageInputs, maxTokens \in MaxTokensInputs,
          temperature \in TemperatureInputs :
           PairCompleteChat(messages, maxTokens, temperature)
    \/ \E outcomes \in PairedOutcomes : PairPost(outcomes)
    \/ PairTryFallback
    \/ PairFinishHttp
    \/ PairFinishHF
    \/ PairReturn

SpecPair == InitPair /\ [][NextPair]_vars

---------------------------------------------------------------------------
(* SpecScore: TechAgent.score over every outcome of its complete_chat call *)

ScoreNumericKeys == {"depth", "correctness", "tradeoffs", "communication"}

ScoreKeys == ScoreNumericKeys \cup {"summary"}

\* raw[:120]
ScoreSummaryMax == 120

\* The stripped text complete_chat returned, by what json.loads and the slice
\* look at: whether it parses and to what, which rubric keys a parsed object
\* holds, what values they have there, whether it holds other keys too, and how
\* many characters the text has.
RawLens == {0, 8, 120, 121}

\* The values of the rubric keys in a parsed object: "valid" (an integer in 0..5,
\* a text for summary), "out_of_range" (an integer such as 9 or -1),
\* "wrong_type" (a string or a fraction for a number, a number for summary).
ValueKinds == {"valid", "out_of_range", "wrong_type"}

RawTexts ==
    [json : {"not_json", "array", "scalar"}, keys : {{}}, values : {"none"},
     extra : {FALSE}, len : RawLens]
    \cup [json : {"object"}, keys : SUBSET ScoreKeys \ {{}}, values : ValueKinds,
          extra : BOOLEAN, len : {8, 121}]
    \cup [json : {"object"}, keys : {{}}, values : {"none"},
          extra : BOOLEAN, len : {8, 121}]

NoRaw == [json |-> "none", keys |-> {}, values |-> "none", extra |-> FALSE, len |-> 0]

\* What the complete_chat call of score does: returns a text or raises.
ScoreChatOutcomes ==
    [kind : {"text"}, raw : RawTexts, exc : {"none"}]
    \cup [kind : {"raise"}, raw : {NoRaw},
          exc : {"HttpError", "RuntimeError", "JSONDecodeError", "AttributeError"}]

\* A value of the returned dict: what the model's JSON gave for the key, or the
\* default 0 / "" of setdefault, or the first chars characters of the raw text.
Given(key, value) == [from |-> "json", key |-> key, value |-> value, chars |-> 0]

Zero == [from |-> "zero", key |-> "none", value |-> "valid", chars |-> 0]

EmptyString == [from |-> "empty", key |-> "none", value |-> "valid", chars |-> 0]

RawPrefix(raw) ==
    [from |-> "raw", key |-> "none", value |-> "valid",
     chars |-> IF raw.len <= ScoreSummaryMax THEN raw.len ELSE ScoreSummaryMax]

\* The keys of the dict score returns for a parsed object: the object's own keys
\* (the five rubric keys it holds and any other) and the defaulted ones.
ScoreDictKeys(raw) == ScoreKeys \cup (IF raw.extra THEN {"extra"} ELSE {})

\* TechAgent.score: the complete_chat call stands before the try; json.loads and
\* the setdefault loop stand inside it (setdefault on a parsed list or scalar
\* raises AttributeError, caught like the parse error). The parsed object is
\* returned as it is, with the missing keys set.
TechScore(llm) ==
    IF llm.kind = "raise" THEN [exc |-> llm.exc, data |-> <<>>]
    ELSE IF llm.raw.json = "object"
    THEN [exc |-> "none",
          data |-> [k \in ScoreDictKeys(llm.raw) |->
                       IF k \in llm.raw.keys THEN Given(k, llm.raw.values)
                       ELSE IF k = "extra" THEN Given(k, "valid")
                       ELSE IF k = "summary" THEN EmptyString ELSE Zero]]
    ELSE [exc |-> "none",
          data |-> [k \in ScoreKeys |->
                       IF k = "summary" THEN RawPrefix(llm.raw) ELSE Zero]]

Score(llm) ==
    /\ LET r == TechScore(llm)
       IN  last' = [op |-> "score", llm |-> llm, exc |-> r.exc, data |-> r.data]
    /\ UNCHANGED <<orchVars, asks, asked, installed, concVars, clientVars>>

InitScore ==
    /\ OrchInit
    /\ ApiInit
    /\ pc = NoThreads /\ frame = NoThreads /\ start = 0
    /\ PROVIDER = "http" /\ fb = {} /\ cc = NoCall /\ peer = NoCall

NextScore == \E llm \in ScoreChatOutcomes : Score(llm)

SpecScore == InitScore /\ [][NextScore]_vars

---------------------------------------------------------------------------
(* Claims about the rotation and the Orchestrator's API (Spec) *)

\* The key at rotation position k (0-based) of an order.
RotationKey(ord, k) == ord[(k % Len(ord)) + 1]

\* The whitespace class of str.strip(): every character is a space (or none is there).
WhitespaceOnly(s) == \A i \in 1..Len(s) : s[i] = " "

\* C1: in a sequential run the k-th ask (k = 0, 1, ...) since construction, the last
\* reset_rotation or the last successful set_rotation is served by, and returns,
\* order[k mod len(order)], whatever evaluate calls came in between; with the
\* default order four asks give tech, hr, mentor, tech.
C1_AskFollowsRotation ==
    /\ asks > 0 => asked = RotationKey(_order, asks - 1)
    /\ (last.op = "ask" /\ last.exc = "none")
           => last.persona = RotationKey(_order, asks - 1)
    /\ (last.op = "ask" /\ last.exc = "none" /\ _order = DefaultOrder /\ asks <= 4)
           => last.persona = <<"tech", "hr", "mentor", "tech">>[asks]

C1_Witness ==
    /\ _order = DefaultOrder
    /\ asks = 4
    /\ last.op = "ask" /\ last.exc = "none" /\ last.persona = "tech"

\* C3: reset_rotation sets the cursor to 0 and leaves the order as it found it, and
\* the first ask after a reset returns order[0], however many asks came before.
C3_ResetRestartsRotation ==
    /\ [](last.op = "reset_rotation" => (_turn = 0 /\ _order = last.orderBefore))
    /\ [][(last.op = "reset_rotation" /\ last'.op = "ask" /\ last'.exc = "none")
               => last'.persona = _order[1]]_vars

C3_Witness ==
    /\ last.op = "reset_rotation"
    /\ last.turnBefore >= 2
    /\ last.orderBefore # DefaultOrder
    /\ _turn = 0

\* A list set_rotation must reject: empty, or naming a key outside the registry.
InvalidRotation(new) == new = <<>> \/ \E i \in 1..Len(new) : new[i] \notin Personas

\* C4: set_rotation fails exactly on an empty list or a list with an unregistered
\* key, and a failing call leaves the order and the cursor as it found them.
C4_FailedSetRotationChangesNothing ==
    last.op = "set_rotation" =>
        /\ (last.exc # "none") <=> InvalidRotation(last.arg)
        /\ last.exc # "none" => (_order = last.orderBefore /\ _turn = last.turnBefore)

C4_Witness ==
    /\ last.op = "set_rotation"
    /\ last.arg = <<"tech", "ceo">>
    /\ last.exc = "KeyError"
    /\ _turn >= 2

\* C5: a successful set_rotation(new_order) makes new_order the order and the cursor
\* 0 whatever the cursor was, and the asks that follow are served by new_order[0],
\* new_order[1], ... cyclically.
C5_SetRotationInstallsOrder ==
    /\ (last.op = "set_rotation" /\ last.exc = "none")
           => (_order = last.arg /\ _turn = 0)
    /\ (last.op = "ask" /\ last.exc = "none")
           => last.persona = RotationKey(installed, asks - 1)

C5_Witness ==
    /\ last.op = "set_rotation" /\ last.exc = "none"
    /\ last.arg = <<"hr", "hr">>
    /\ last.turnBefore >= 2
    /\ _turn = 0

\* C6: in every state reached through ask, evaluate, reset_rotation and set_rotation
\* calls the order is non-empty, names registered personas only, the cursor modulo
\* its length indexes it, and no ask failed while selecting its persona.
C6_RotationStateValid ==
    /\ Len(_order) > 0
    /\ \A i \in 1..Len(_order) : _order[i] \in Personas
    /\ (_turn % Len(_order)) + 1 \in DOMAIN _order
    /\ last.op = "ask"
           => /\ last.exc \notin {"ZeroDivisionError", "IndexError", "KeyError"}
              /\ last.invoked \in Personas

C6_Witness ==
    /\ aliased
    /\ _turn > Len(_order)
    /\ last.op = "ask" /\ last.exc = "none"

\* C8: evaluate with an unregistered key fails with the unknown-persona error
\* before any persona or the chat client is invoked; with a registered key it
\* invokes that persona's feedback and returns that key with the feedback,
\* whichever persona the latest ask was served by.
C8_EvaluateRoutesByKey ==
    last.op = "evaluate" =>
        IF last.arg[1] \notin Personas
        THEN last.exc = "KeyError" /\ last.invoked = "none" /\ last.llmCalls = 0
        ELSE /\ last.invoked = last.arg[1]
             /\ last.exc = "none"
                    => /\ last.persona = last.arg[1]
                       /\ last.text = IF last.llmCalls = 0 THEN FixedPrompt
                                      ELSE Strip(last.llm.text)

C8_Witness ==
    /\ last.op = "evaluate" /\ last.exc = "none" /\ last.llmCalls = 1
    /\ asked # "none"
    /\ last.persona # asked

\* C9: for each persona, an empty or whitespace-only answer gets the fixed
\* prompt-to-answer text with no call to the chat client, and an answer with a
\* non-whitespace character makes exactly one complete_chat call.
C9_BlankAnswerSkipsClient ==
    (last.op = "evaluate" /\ last.arg[1] \in Personas) =>
        IF WhitespaceOnly(last.answer)
        THEN last.exc = "none" /\ last.text = FixedPrompt /\ last.llmCalls = 0
        ELSE last.llmCalls = 1

C9_Witness ==
    /\ last.op = "evaluate"
    /\ last.arg[1] = "mentor"
    /\ last.answer = <<" ">>
    /\ last.text = FixedPrompt /\ last.llmCalls = 0

---------------------------------------------------------------------------
(* Claims about concurrent asks (SpecConc) and about aliasing (SpecAlias) *)

\* The threads that have read their rotation position.
Positioned == {t \in Threads : frame[t].pos # -1}

\* C2: the read-modify-write of the cursor is atomic across concurrent asks: N
\* concurrent asks from cursor c get the positions c, ..., c+N-1, one each, and
\* leave the cursor at c+N.
C2_CursorUpdateAtomic ==
    /\ \A t1, t2 \in Positioned : t1 # t2 => frame[t1].pos # frame[t2].pos
    /\ (\A t \in Threads : pc[t] \in {"agent", "done"})
           => /\ {frame[t].pos : t \in Threads} = start..(start + NThreads - 1)
              /\ _turn = start + NThreads

\* C7: the order and the cursor change only in a step of ask (cursor + 1),
\* reset_rotation or a successful set_rotation; evaluate, list_personas and the
\* caller's own actions on the lists it holds leave both unchanged.
C7_RotationChangesOnlyThroughApi ==
    [][(_order' # _order \/ _turn' # _turn)
           => \/ (\E llm \in LlmOutcomes : Ask(llm)) /\ _order' = _order /\ _turn' = _turn + 1
              \/ ResetRotation
              \/ \E new \in OrderInputs : SetRotation(new) /\ last'.exc = "none"]_vars

\* The exception classes the chat clients raise: ValueError (invalid input),
\* HttpError (transient), RuntimeError (permanent, malformed response), and the
\* ones they let through from parsing.
ClientErrorKinds ==
    {"ValueError", "HttpError", "RuntimeError", "JSONDecodeError", "AttributeError",
     "TypeError"}

\* The kind of set_rotation's rejection of the empty order, and of evaluate's
\* rejection of an unknown key.
EmptyOrderRejection == SetRotationState(DefaultOrder, 0, <<>>).exc

UnknownPersonaRejection == OrchEvaluate("ceo", NoText, NoLlm).exc

\* C22: every rejection by set_rotation is of one kind, the unknown-key rejection
\* by evaluate is of another kind, and neither is a kind of error that the chat
\* client produces.
C22_ValidationErrorKindsDistinct ==
    /\ (last.op = "set_rotation" /\ last.exc # "none") =>
          /\ last.exc = EmptyOrderRejection
          /\ last.exc # UnknownPersonaRejection
          /\ last.exc \notin ClientErrorKinds
    /\ (last.op = "evaluate" /\ last.arg[1] \notin Personas) =>
          /\ last.exc = UnknownPersonaRejection
          /\ last.exc # EmptyOrderRejection
          /\ last.exc \notin ClientErrorKinds

---------------------------------------------------------------------------
(* Claims about the chat clients (SpecClient) *)

\* The text at the path the client documents for its provider.
CarriesContent(provider, body) ==
    IF provider = "http" THEN body.shape = "chat"
    ELSE body.shape \in {"generated_list", "generated_object"}

AttemptCap(provider) ==
    IF provider = "http" THEN HttpStopAfterAttempt ELSE HFStopAfterAttempt

\* The transport has so far answered the call's requests to its current endpoint
\* with transient outcomes only, fewer than the attempt cap.
OnlyTransientsSoFar ==
    /\ cc.pc # "idle"
    /\ TransientOutcome(cc.outcome)
    /\ cc.sent[cc.ep] = cc.transients[cc.ep]
    /\ cc.transients[cc.ep] < AttemptCap(PROVIDER)

\* The call is over, and the transport answered its requests to the endpoint with
\* k < cap transient outcomes and then a 200 response carrying a text.
TransientsThenOk ==
    /\ cc.pc = "done"
    /\ cc.outcome.kind = "response"
    /\ cc.outcome.status = 200
    /\ CarriesContent(PROVIDER, cc.outcome.body)
    /\ cc.transients[cc.ep] < AttemptCap(PROVIDER)

\* C10 (as amended): after k < cap transient outcomes (network failure, timeout,
\* 5xx) the call is still retrying, and when a 200 response with a text follows,
\* complete_chat has made exactly k+1 attempts, all against that one endpoint,
\* and returns the 200 payload's content with leading and trailing whitespace
\* stripped.
C10_RetryThenStrippedContent ==
    /\ OnlyTransientsSoFar => cc.pc = "post" /\ cc.exc = "none"
    /\ TransientsThenOk =>
          /\ cc.sent[cc.ep] = cc.transients[cc.ep] + 1
          /\ cc.ep = "primary" => cc.sent.fallback = 0
          /\ cc.exc = "none"
          /\ cc.text = Strip(cc.outcome.body.text)

\* 503, 503, 200 with a padded text: three attempts, the stripped text returned.
C10_Witness ==
    /\ TransientsThenOk
    /\ cc.ep = "primary"
    /\ cc.transients.primary = 2
    /\ cc.sent.primary = 3
    /\ cc.outcome.body.text = <<" ", "a">>
    /\ cc.text = <<"a">>

\* C10 (as stated): k < cap transient outcomes and then a 200 response give
\* exactly k+1 attempts against the same endpoint, and complete_chat returns the
\* 200 payload's content.
C10_RetryThenContent ==
    TransientsThenOk =>
        /\ cc.sent[cc.ep] = cc.transients[cc.ep] + 1
        /\ cc.ep = "primary" => cc.sent.fallback = 0
        /\ cc.exc = "none"
        /\ cc.text = cc.outcome.body.text

\* The transport has answered every request of the call with a transient outcome
\* and the call is over.
AlwaysTransient ==
    /\ cc.pc = "done"
    /\ cc.ep = "primary"
    /\ cc.sent.primary > 0
    /\ cc.sent.primary = cc.transients.primary

\* C11: when every attempt yields a transient outcome, complete_chat ends after
\* exactly the attempt cap of requests (4 for HttpLLMClient, 3 for
\* HFInferenceClient), none of them to the fallback endpoint, and raises HttpError
\* instead of returning text; no call ever sends more than the cap to an endpoint.
C11_RetryExhaustion ==
    /\ cc.sent.primary <= AttemptCap(PROVIDER)
    /\ AlwaysTransient =>
          /\ cc.sent.primary = AttemptCap(PROVIDER)
          /\ cc.sent.primary = IF PROVIDER = "http" THEN 4 ELSE 3
          /\ cc.sent.fallback = 0
          /\ cc.exc = "HttpError"
          /\ cc.text = NoText

\* The transport always returns 503 to an HttpLLMClient with a fallback configured.
C11_Witness ==
    /\ AlwaysTransient
    /\ PROVIDER = "http"
    /\ fb = FallbackTriple
    /\ cc.outcome.status = 503
    /\ cc.sent.primary = 4
    /\ cc.exc = "HttpError"

\* A response with a status in 400..499.
ClientError(outcome) ==
    outcome.kind = "response" /\ outcome.status >= 400 /\ outcome.status <= 499

\* The primary response is the quota case and the fallback is fully configured.
QuotaFallbackCase(fbSet, r) ==
    /\ fbSet = FallbackTriple
    /\ r.kind = "response"
    /\ r.status = 429
    /\ r.body.shape = "quota"

\* C12: a 4xx response is never retried (after it the call makes no further
\* attempt against the same endpoint), and outside the quota-fallback case
\* complete_chat ends at once with the permanent upstream error (RuntimeError)
\* carrying the status code and a truncated body.
C12_ClientErrorSurfacesAtOnce ==
    /\ (ClientError(cc.outcome) /\ cc.pc = "post") =>
           (cc.ep = "fallback" /\ cc.sent.fallback = 0)
    /\ (ClientError(cc.outcome) /\ cc.pc = "done") =>
           (cc.exc = "RuntimeError" /\ cc.carried = Carried(cc.outcome.status, TRUE))

\* The call went over to the fallback endpoint.
FallbackFired == cc.pc # "idle" /\ cc.ep = "fallback"

\* C13: a primary 429 whose error.code is insufficient_quota, with the full
\* fallback triple configured, always sends the call on to the fallback endpoint:
\* one _post there (at most the attempt cap of requests), with the fallback url,
\* key and model, the message sequence of the call and of the primary request,
\* the primary's resolved max_tokens and temperature; and the call's result is
\* what complete_chat makes of the fallback's response.
C13_QuotaFallbackFires ==
    /\ (QuotaFallbackCase(fb, cc.resp) /\ cc.ep = "primary") => cc.pc = "try_fallback"
    /\ FallbackFired =>
          /\ cc.requests.fallback.url = "LLM_FALLBACK_BASE_URL"
          /\ cc.requests.fallback.key = "LLM_FALLBACK_API_KEY"
          /\ cc.requests.fallback.payload.model = "LLM_FALLBACK_MODEL"
          /\ cc.requests.fallback.payload.messages = cc.messages
          /\ cc.requests.fallback.payload.messages = cc.requests.primary.payload.messages
          /\ cc.requests.fallback.payload.max_tokens =
                 cc.requests.primary.payload.max_tokens
          /\ cc.requests.fallback.payload.max_tokens =
                 (IF cc.max_tokens = 0 THEN 128 ELSE cc.max_tokens)
          /\ cc.requests.fallback.payload.temperature =
                 cc.requests.primary.payload.temperature
          /\ cc.requests.fallback.payload.stream = FALSE
          /\ cc.sent.fallback <= AttemptCap("http")
    /\ (FallbackFired /\ cc.pc = "done") =>
          /\ cc.sent.fallback >= 1
          /\ (cc.outcome.kind = "response" /\ cc.outcome.status = 200
              /\ cc.outcome.body.shape = "chat") =>
                 (cc.exc = "none" /\ cc.text = Strip(cc.outcome.body.text))
          /\ ClientError(cc.outcome) =>
                 (cc.exc = "RuntimeError"
                  /\ cc.carried = Carried(cc.outcome.status, TRUE))
          /\ TransientOutcome(cc.outcome) => cc.exc = "HttpError"

\* The primary answered 429 insufficient_quota and the fallback answered 200 with
\* a text, which the call returned.
C13_Witness ==
    /\ FallbackFired
    /\ cc.pc = "done"
    /\ fb = FallbackTriple
    /\ cc.sent.primary = 1
    /\ cc.sent.fallback = 1
    /\ cc.messages = AgentMessages
    /\ cc.outcome.status = 200
    /\ cc.text = <<"a">>

\* C14: outside the full condition (triple absent or partly set, status other than
\* 429, a 429 body that is no JSON, has no error object, has an error value of
\* another shape, or another error code) nothing is sent to the fallback endpoint
\* and the primary response is what the caller gets: an error response surfaces
\* as the upstream error (RuntimeError) carrying its status and body.
C14_FallbackOnlyUnderFullCondition ==
    /\ cc.sent.fallback > 0 => fb = FallbackTriple
    /\ (/\ PROVIDER = "http"
        /\ cc.pc = "done"
        /\ cc.ep = "primary"
        /\ cc.resp.kind = "response"
        /\ ~QuotaFallbackCase(fb, cc.resp)) =>
           /\ cc.sent.fallback = 0
           /\ cc.resp.status >= 400 =>
                  (cc.exc = "RuntimeError"
                   /\ cc.carried = Carried(cc.resp.status, TRUE))

\* The fallback endpoint has answered at least one request of the call.
FallbackAnswered == FallbackFired /\ cc.sent.fallback > 0

\* C15: the fallback happens at most once per call and is not recursive: once the
\* call is on the fallback endpoint it never runs the quota check again, a 4xx
\* from the fallback (429 insufficient_quota included) is followed by no further
\* request and surfaces as the upstream error, and transient outcomes from the
\* fallback are retried up to the same attempt cap as the primary's.
C15_FallbackOnceNotRecursive ==
    /\ FallbackFired => cc.pc # "try_fallback"
    /\ FallbackFired => cc.sent.primary = cc.transients.primary + 1
    /\ cc.sent.fallback <= AttemptCap("http")
    /\ (FallbackAnswered /\ ClientError(cc.outcome)) => cc.pc \in {"finish", "done"}
    /\ (FallbackAnswered /\ ClientError(cc.outcome) /\ cc.pc = "done") =>
           (cc.exc = "RuntimeError" /\ cc.carried = Carried(cc.outcome.status, TRUE))
    /\ (FallbackAnswered /\ TransientOutcome(cc.outcome)
        /\ cc.sent.fallback = cc.transients.fallback) =>
           IF cc.sent.fallback < AttemptCap("http")
           THEN cc.pc = "post"
           ELSE cc.pc = "done" /\ cc.exc = "HttpError"

\* The fallback endpoint answered 503 and then 429 insufficient_quota itself.
C15_Witness ==
    /\ FallbackAnswered
    /\ cc.pc = "done"
    /\ cc.transients.fallback = 1
    /\ cc.sent.fallback = 2
    /\ cc.outcome.status = 429
    /\ cc.outcome.body.shape = "quota"
    /\ cc.exc = "RuntimeError"


\* The message sequence is empty, no sequence, or holds a message that lacks its
\* role or content or has a role outside system / user / assistant.
InvalidMessages(messages) ==
    \/ ~messages.isList
    \/ messages.items = <<>>
    \/ \E i \in 1..Len(messages.items) :
           \/ messages.items[i].role \notin {"system", "user", "assistant"}
           \/ messages.items[i].content \in {"<missing>", "<notdict>"}

\* C17: on both clients complete_chat with an empty message sequence, a
\* non-sequence, or a sequence holding a malformed message fails with the
\* invalid-input error (ValueError) and sends no request.
C17_InvalidInputRejectedBeforeNetwork ==
    (cc.pc # "idle" /\ InvalidMessages(cc.messages)) =>
        /\ cc.sent = PerEndpoint(0, 0)
        /\ cc.pc = "done" => cc.exc = "ValueError"

\* C18: a 200 response whose body does not hold the assistant text at the expected
\* path ends complete_chat with the malformed-response error (RuntimeError)
\* carrying an excerpt of the body, and never with a returned text.
C18_MalformedSuccessBodyRejected ==
    (/\ cc.pc = "done"
     /\ cc.resp.kind = "response"
     /\ cc.resp.status = 200
     /\ ~CarriesContent(PROVIDER, cc.resp.body)) =>
        /\ cc.exc = "RuntimeError"
        /\ cc.carried.excerpt
        /\ cc.text = NoText

---------------------------------------------------------------------------
(* Claims about one ask / evaluate call and its network requests (SpecCall) *)

\* An Orchestrator.ask or evaluate call is inside the client.
ApiCallInClient == cc.pc # "idle" /\ cc.caller.op \in {"ask", "evaluate"}

RequestsSent == cc.sent.primary + cc.sent.fallback

\* The call has not returned while its complete_chat is in flight, and a call
\* that ends with the transient error has used up its attempts.
CallBlocksUntilDone ==
    /\ (last.exc = "pending") <=> (cc.pc # "idle")
    /\ (cc.pc = "done" /\ cc.exc = "HttpError") =>
           cc.sent[cc.ep] = AttemptCap(PROVIDER)

\* C16 (as amended): one ask or evaluate call makes at most one logical request
\* to the primary endpoint and, only when the quota fallback fires, one more to
\* the fallback endpoint; each is repeated only after transient outcomes, so the
\* call sends at most the attempt cap of network requests per endpoint (4 for
\* HttpLLMClient, 3 for HFInferenceClient); and the call blocks until it has a
\* response or fails.
C16_BoundedRequestsPerCall ==
    /\ ApiCallInClient =>
          /\ cc.sent.primary <= AttemptCap(PROVIDER)
          /\ cc.sent.fallback <= AttemptCap(PROVIDER)
          /\ cc.sent.fallback > 0 => (FallbackFired /\ fb = FallbackTriple)
          /\ RequestsSent <= (IF FallbackFired THEN 8 ELSE 4)
          /\ cc.sent.primary - cc.transients.primary \in {0, 1}
          /\ cc.sent.fallback - cc.transients.fallback \in {0, 1}
    /\ CallBlocksUntilDone

\* An evaluate call whose primary answered 503 and then 429 insufficient_quota and
\* whose fallback answered 503 and then 200: four requests.
C16_Witness ==
    /\ ApiCallInClient
    /\ cc.caller.op = "evaluate"
    /\ cc.pc = "done"
    /\ FallbackFired
    /\ cc.sent.primary = 2
    /\ cc.sent.fallback = 2
    /\ cc.exc = "none"

\* C16 (as stated): for every sequence of transport outcomes one ask or evaluate
\* call sends at most one network request, or at most two when the quota fallback
\* fires, and blocks until it has a response or fails after retries.
C16_OneOrTwoRequestsPerCall ==
    /\ ApiCallInClient => RequestsSent <= (IF FallbackFired THEN 2 ELSE 1)
    /\ CallBlocksUntilDone

---------------------------------------------------------------------------
(* Claims about the two clients side by side (SpecPair) *)

\* The outcome kinds of the complete contract; any exception raised on the input
\* before a request went out counts as invalid input.
OutcomeKind(call) ==
    IF call.exc = "none" THEN "text returned"
    ELSE IF call.sent = PerEndpoint(0, 0) THEN "invalid input"
    ELSE IF call.exc = "HttpError" THEN "transient error"
    ELSE IF call.exc = "RuntimeError" /\ call.carried.status >= 400
    THEN "permanent error"
    ELSE IF call.exc = "RuntimeError" THEN "malformed response"
    ELSE call.exc

\* C19: given the same messages and the same sequence of transport outcomes,
\* HttpLLMClient (no fallback configured) and HFInferenceClient end with the same
\* outcome kind and have made the same number of attempts.
C19_ClientsAgree ==
    (cc.pc = "done" /\ peer.pc = "done") =>
        /\ OutcomeKind(cc) = OutcomeKind(peer)
        /\ cc.sent.primary = peer.sent.primary

---------------------------------------------------------------------------
(* Claims about TechAgent.score (SpecScore) *)

\* C20: score never throws: for every outcome of its chat call it returns a record
\* with the five fields; when the text does not parse as a JSON object the four
\* numeric fields are 0 and summary is the raw text cut to at most 120
\* characters; keys missing from a parsed object default to 0 / "".
C20_ScoreNeverThrows ==
    last.op = "score" =>
        /\ last.exc = "none"
        /\ ScoreKeys \subseteq DOMAIN last.data
        /\ last.llm.raw.json # "object" =>
              /\ \A k \in ScoreNumericKeys : last.data[k] = Zero
              /\ last.data["summary"].from = "raw"
              /\ last.data["summary"].chars <= 120
              /\ last.data["summary"].chars =
                     (IF last.llm.raw.len < 120 THEN last.llm.raw.len ELSE 120)
        /\ last.llm.raw.json = "object" =>
              \A k \in ScoreKeys :
                  last.data[k] = IF k \in last.llm.raw.keys
                                 THEN Given(k, last.llm.raw.values)
                                 ELSE IF k = "summary" THEN EmptyString ELSE Zero

---------------------------------------------------------------------------
(* Claims about the HTTP boundary (SpecCall) *)

\* The endpoint has answered the request.
Answered(op) == last.op = op /\ last.exc # "pending"

\* C21: POST /evaluate answers 400 exactly when the persona key is not in the
\* registry; every other failure of /evaluate (transient, permanent, malformed
\* upstream errors, errors raised while parsing an upstream body) and every
\* failure of /ask answers 500.
C21_ClientErrorOnlyForUnknownPersona ==
    /\ Answered("evaluate") =>
          /\ (last.status = 400) <=> (last.arg[1] \notin Personas)
          /\ (last.arg[1] \in Personas /\ last.exc # "none") => last.status = 500
          /\ last.exc = "none" => last.status = 200
    /\ Answered("ask") =>
          /\ last.exc # "none" => last.status = 500
          /\ last.status # 400

\* /evaluate for a registered persona whose upstream body was no JSON.
C21_Witness ==
    /\ Answered("evaluate")
    /\ last.arg[1] \in Personas
    /\ last.exc = "JSONDecodeError"
    /\ last.status = 500

\* C23: every record score returns has depth, correctness, tradeoffs and
\* communication as integers in 0..5 and summary as text, whatever text the model
\* returned (JSON objects with out-of-range, non-integer or extra fields too).
C23_ScoreFieldsInRange ==
    (last.op = "score" /\ last.exc = "none") =>
        \A k \in ScoreKeys : last.data[k].value = "valid"

(***************************************************************************)
(* Claims about the cursor across failing asks (SpecCall)                  *)
(***************************************************************************)

\* An ask whose persona call ended with an exception.
AskFailed == last.op = "ask" /\ last.exc \notin {"none", "pending"}

\* C24: the cursor advances by exactly one per Orchestrator.ask call whether or
\* not the persona's LLM call succeeds: it is advanced before the chat client is
\* invoked and never rolled back, so the cursor equals the number of asks begun
\* at every point of every call, and the ask that follows a failed ask is served
\* by the persona after the failed one's in the order.
C24_CursorAdvancesDespiteFailure ==
    /\ [](/\ _turn = asks
          /\ last.op = "ask" =>
                /\ last.persona = RotationKey(_order, last.turnBefore)
                /\ _turn = last.turnBefore + 1)
    /\ [][/\ asks' = asks + 1 =>
                /\ _turn' = _turn + 1
                /\ asked' = RotationKey(_order, _turn)
                /\ cc'.sent = PerEndpoint(0, 0)
          /\ asks' = asks => _turn' = _turn
          /\ (AskFailed /\ asks' = asks + 1) =>
                last'.persona = RotationKey(_order, last.turnBefore + 1)]_vars

\* A second ask that failed upstream after the retries: both slots are consumed.
C24_Witness ==
    /\ AskFailed
    /\ last.exc = "HttpError"
    /\ last.turnBefore = 1
    /\ last.persona = "hr"
    /\ _turn = 2

====
